---- MODULE Spec2Model ----
(***************************************************************************)
(* RTP audio server of examples/audioBle/tools/stream_audio.py.            *)
(*                                                                         *)
(* The model follows main() -> RtpServer.__init__ -> stream_audio, one     *)
(* action per statement group, with the position of the single thread in   *)
(* pc.                                                                     *)
(*                                                                         *)
(* Two representations keep the values exact.  A Python int that can pass  *)
(* 2^31 - 1 (timestamp, byte offsets and lengths) is a record [hi, lo]     *)
(* standing for hi * 2^15 + lo, 0 <= lo < 2^15: timestamps reach 2^32 and  *)
(* TLC's own integers do not.  A Python bytes value is run-length encoded: *)
(* a sequence of runs [b |-> byte, n |-> count], count > 0, adjacent runs  *)
(* of different bytes.  Every bytes value has exactly one such form, so    *)
(* equality of forms is equality of bytes.                                 *)
(***************************************************************************)
EXTENDS Integers, Sequences, FiniteSets, TLC

(***************************************************************************)
(* Bounds of the model.                                                    *)
(***************************************************************************)
\* longest clip enumerated sample by sample (16-bit mono samples)
MaxSamples == 3
\* frames of the clip that takes the sequence number past 65535, and the
\* number of loop iterations already done where its run is picked up
SeqClipFrames == 65540
SeqResume == 65534
\* the same for the clip that takes the timestamp past 2^32 - 1
TsClipFrames == 4473930
TsResume == 4473922

(***************************************************************************)
(* Program constants.                                                      *)
(***************************************************************************)
PAYLOAD_TYPE_L16 == 11
SSRC == 305419896
VPXCC == 128
MARKER_BIT == 128
SEQ_MASK == 65535
DEFAULT_CHUNK_MS == 20
DEFAULT_SAMPLE_RATE == 48000
SAMPLE_WIDTH == 2
CHANNELS == 1

None == "None"
Peers == {"192.168.1.20:5004", "192.168.1.21:40000"}

(***************************************************************************)
(* Python ints beyond 2^31 - 1.                                            *)
(***************************************************************************)
LimbBase == 2 ^ 15

\* the int n, 0 <= n < 2^31
W(n) == [hi |-> n \div LimbBase, lo |-> n % LimbBase]

\* a + b
WAdd(a, b) ==
    [hi |-> a.hi + b.hi + ((a.lo + b.lo) \div LimbBase),
     lo |-> (a.lo + b.lo) % LimbBase]

\* a - b, for a >= b
WSub(a, b) ==
    IF a.lo >= b.lo
    THEN [hi |-> a.hi - b.hi, lo |-> a.lo - b.lo]
    ELSE [hi |-> a.hi - b.hi - 1, lo |-> a.lo + LimbBase - b.lo]

\* a < b
WLess(a, b) == a.hi < b.hi \/ (a.hi = b.hi /\ a.lo < b.lo)

\* a <= b
WLeq(a, b) == ~ WLess(b, a)

\* a * m, 0 <= m < 2^15
WMulSmall(a, m) ==
    [hi |-> a.hi * m + ((a.lo * m) \div LimbBase), lo |-> (a.lo * m) % LimbBase]

\* a * m, 0 <= m < 2^30
WMul(a, m) ==
    LET high == WMulSmall(a, m \div LimbBase)
    IN  WAdd([hi |-> high.hi * LimbBase + high.lo, lo |-> 0],
             WMulSmall(a, m % LimbBase))

\* a // m and a % m, 0 < m < 2^15
WDivSmall(a, m) ==
    [hi |-> a.hi \div m, lo |-> ((a.hi % m) * LimbBase + a.lo) \div m]
WModSmall(a, m) == ((a.hi % m) * LimbBase + a.lo) % m

\* a % 2^32
WMod32(a) == [hi |-> a.hi % (2 ^ 17), lo |-> a.lo]

(***************************************************************************)
(* Python bytes, run-length encoded; counts and offsets are [hi, lo] ints. *)
(***************************************************************************)
Run(b, n) == [b |-> b, n |-> n]

RECURSIVE BytesLen(_)
\* len(d)
BytesLen(d) == IF d = <<>> THEN W(0) ELSE WAdd(Head(d).n, BytesLen(Tail(d)))

RECURSIVE Take(_, _)
\* d[:k], k >= 0
Take(d, k) ==
    IF k = W(0) \/ d = <<>> THEN <<>>
    ELSE IF WLeq(Head(d).n, k)
         THEN <<Head(d)>> \o Take(Tail(d), WSub(k, Head(d).n))
    ELSE <<Run(Head(d).b, k)>>

RECURSIVE Drop(_, _)
\* d[k:], k >= 0
Drop(d, k) ==
    IF d = <<>> THEN <<>>
    ELSE IF k = W(0) THEN d
    ELSE IF WLeq(Head(d).n, k) THEN Drop(Tail(d), WSub(k, Head(d).n))
    ELSE <<Run(Head(d).b, WSub(Head(d).n, k))>> \o Tail(d)

\* a + b
Concat(a, b) ==
    IF a = <<>> THEN b
    ELSE IF b = <<>> THEN a
    ELSE IF a[Len(a)].b = b[1].b
         THEN SubSeq(a, 1, Len(a) - 1)
              \o <<Run(b[1].b, WAdd(a[Len(a)].n, b[1].n))>>
              \o Tail(b)
    ELSE a \o b

\* bytes([b]) * n
Repeat(b, n) == IF n = W(0) THEN <<>> ELSE <<Run(b, n)>>

RECURSIVE FromList(_)
\* bytes(s) for a sequence s of integers 0..255
FromList(s) ==
    IF s = <<>> THEN <<>> ELSE Concat(<<Run(Head(s), W(1))>>, FromList(Tail(s)))

RECURSIVE ByteAt(_, _)
\* d[k], 0 <= k < len(d)
ByteAt(d, k) ==
    IF WLess(k, Head(d).n) THEN Head(d).b ELSE ByteAt(Tail(d), WSub(k, Head(d).n))

(***************************************************************************)
(* Integer helpers of the header codec.                                    *)
(***************************************************************************)
RECURSIVE BitOr(_, _)
\* a | b on non-negative integers
BitOr(a, b) ==
    IF a = 0 THEN b
    ELSE IF b = 0 THEN a
    ELSE (IF a % 2 = 1 \/ b % 2 = 1 THEN 1 ELSE 0) + 2 * BitOr(a \div 2, b \div 2)

RECURSIVE BitAnd(_, _)
\* a & b on non-negative integers
BitAnd(a, b) ==
    IF a = 0 \/ b = 0 THEN 0
    ELSE (IF a % 2 = 1 /\ b % 2 = 1 THEN 1 ELSE 0) + 2 * BitAnd(a \div 2, b \div 2)

RECURSIVE LittleEndian(_, _)
\* a bug: the n bytes of v, least significant first
LittleEndian(v, n) ==
    IF n = 0 THEN <<>>
    ELSE <<WModSmall(v, 256)>> \o LittleEndian(WDivSmall(v, 256), n - 1)

RECURSIVE BigEndian(_, _)
\* the n bytes of the [hi, lo] int v, most significant first ('!' byte order)
BigEndian(v, n) ==
    IF n = 0 THEN <<>>
    ELSE Append(BigEndian(WDivSmall(v, 256), n - 1), WModSmall(v, 256))

RECURSIVE Pow256(_)
\* 256 ** n
Pow256(n) == IF n = 0 THEN W(1) ELSE WMulSmall(Pow256(n - 1), 256)

\* struct.pack accepts the [hi, lo] int v for an unsigned field of n bytes
FitsUnsigned(v, n) == WLess(v, Pow256(n))

\* struct.pack('!BBHII', b0, b1, h, i1, i2) raises struct.error
StructError(b0, b1, h, i1, i2) ==
    ~ (/\ FitsUnsigned(b0, 1) /\ FitsUnsigned(b1, 1) /\ FitsUnsigned(h, 2)
       /\ FitsUnsigned(i1, 4) /\ FitsUnsigned(i2, 4))

\* struct.pack('!BBHII', b0, b1, h, i1, i2)
StructPack(b0, b1, h, i1, i2) ==
    BigEndian(b0, 1) \o BigEndian(b1, 1) \o BigEndian(h, 2)
    \o BigEndian(i1, 4) \o BigEndian(i2, 4)

\* a bug: the marker bit left out of the octet
MptNoMarker(m) == PAYLOAD_TYPE_L16

\* marker and payload type octet
Mpt(m) == BitOr(IF m THEN MARKER_BIT ELSE 0, PAYLOAD_TYPE_L16)

(***************************************************************************)
(* Pure steps of stream_audio.                                             *)
(***************************************************************************)
\* a bug: round(...) to the nearest integer in place of int(...)
SamplesPerChunkRounded(rate, ms) == (rate * ms + 500) \div 1000

\* int((sample_rate * chunk_duration_ms) / 1000): true division, then
\* truncation toward zero; exact for the non-negative products used here
SamplesPerChunk(rate, ms) == (rate * ms) \div 1000

\* bytes_per_sample after set_channels(1), set_sample_width(2)
BytesPerSample == SAMPLE_WIDTH * CHANNELS

\* a bug: every chunk cut from the start of the buffer
SliceChunkFromStart(d, i, size) == Take(d, W(size))

\* raw_data[i:i + chunk_size]
SliceChunk(d, i, size) == Take(Drop(d, i), W(size))

\* a bug: the short last chunk goes out unpadded
PadChunkNone(c, size) == c

\* zero padding of a short last chunk
PadChunk(c, size) ==
    IF WLess(BytesLen(c), W(size))
    THEN Concat(c, Repeat(0, WSub(W(size), BytesLen(c))))
    ELSE c

\* a bug: the marker set on every packet
MarkerAlways(i) == TRUE

\* marker = (i == 0)
MarkerFor(i) == (i = W(0))

\* a bug: the sequence number incremented without the mask
AdvanceSeqNoMask(s) == s + 1

\* (sequence_number + 1) & 0xFFFF
AdvanceSeq(s) == BitAnd(s + 1, SEQ_MASK)

\* self.timestamp += timestamp_increment
AdvanceTimestamp(t, inc) == WAdd(t, W(inc))

(***************************************************************************)
(* Inputs: the command line, the audio file and what it decodes to.        *)
(***************************************************************************)
\* 16-bit samples, as their two bytes
SampleValues == {<<0, 0>>, <<1, 0>>, <<255, 127>>}

RECURSIVE PcmOf(_)
\* the raw PCM bytes of a sequence of samples
PcmOf(samples) ==
    IF samples = <<>> THEN <<>>
    ELSE Concat(FromList(Head(samples)), PcmOf(Tail(samples)))

ShortClips ==
    {PcmOf(s) : s \in UNION {[1..n -> SampleValues] : n \in 0..MaxSamples}}

Clip1920 == <<Run(1, W(1920))>>
Clip2500 == <<Run(1, W(600)), Run(2, W(1900))>>
\* clips of whole default frames (1920 bytes), all of byte 1 but the last
LongClipOf(frames) ==
    <<Run(1, WMul(W(1920), frames - 1)), Run(2, W(1920))>>
SeqClip == LongClipOf(SeqClipFrames)
TsClip == LongClipOf(TsClipFrames)

\* <<sample_rate, chunk_duration_ms>>
Rates ==
    {<<DEFAULT_SAMPLE_RATE, DEFAULT_CHUNK_MS>>,
     <<1000, 1>>, <<1999, 1>>, <<2500, 1>>, <<500, 1>>}

\* <<sample_rate, chunk_duration_ms, decoded PCM>>
Scenarios ==
    {<<r[1], r[2], c>> : r \in Rates, c \in ShortClips}
    \cup {<<DEFAULT_SAMPLE_RATE, DEFAULT_CHUNK_MS, Clip1920>>,
          <<DEFAULT_SAMPLE_RATE, DEFAULT_CHUNK_MS, Clip2500>>}

\* datagrams a client may send to the port: <<>> is an empty UDP payload
HelloData == {<<>>, <<104, 105>>}
Hellos == [data : HelloData, addr : Peers]

\* what arrives at the port within the 60 seconds of the wait, in order of
\* arrival: nothing, one datagram, or two from different senders
Arrivals ==
    {<<>>}
    \cup {<<h>> : h \in Hellos}
    \cup {p \in Hellos \X Hellos : p[1].addr # p[2].addr /\ p[2].data # <<>>}

\* the few short runs of the long-clip specification
LongScenarios ==
    {<<r[1], r[2], c>> : r \in Rates, c \in {<<>>, PcmOf(<<<<1, 0>>, <<0, 0>>>>)}}

(***************************************************************************)
(* State.                                                                  *)
(***************************************************************************)
VARIABLES
    pc,                   \* position of the thread
    has_arg,              \* len(sys.argv) >= 2
    file_state,           \* "missing", "undecodable" or "ok"
    sample_rate,          \* RtpServer.sample_rate
    chunk_duration_ms,    \* stream_audio's chunk_duration_ms
    file_pcm,             \* what the file decodes and converts to
    arrivals,             \* datagrams reaching the port during the wait
    socket,               \* "none", "open" or "closed"
    socket_timeout,       \* None, "60" or "0.1"
    client_addr,          \* None or the peer
    sequence_number,
    timestamp,
    ssrc,
    raw_data,
    samples_per_chunk,
    chunk_size,
    timestamp_increment,
    packet_count,
    range_next,           \* next value of range(0, len(raw_data), chunk_size)
    i,
    chunk,
    marker,
    packet,
    exit_status,          \* None while running
    exc,                  \* the exception that ended the program, or None
    wait_result,          \* what wait_for_client returned, None before
    interrupted,          \* the KeyboardInterrupt handler ran
    summary_packets,      \* "Total packets sent" as printed, None before
    header_in,            \* codec specification: the marker argument
    header_out,           \* codec specification: the header, None before
    \* history of the socket and of the loop
    sent_count,           \* datagrams handed to sendto
    last_datagram,        \* the last of them
    dests,                \* the addresses they were sent to
    sent_payload,         \* their payloads (bytes 12..), concatenated
    marked_count,         \* those with the marker bit set
    headers_built,        \* calls of create_rtp_header that returned
    seq_advances,         \* executions of line 148
    iterations,           \* loop bodies entered
    sleeps,               \* pacing sleeps completed
    sleep_micros          \* length of the last of them in microseconds

inputs ==
    <<has_arg, file_state, sample_rate, chunk_duration_ms, file_pcm, arrivals>>
server ==
    <<socket, socket_timeout, client_addr, sequence_number, timestamp, ssrc>>
locals ==
    <<raw_data, samples_per_chunk, chunk_size, timestamp_increment,
      packet_count, range_next, i, chunk, marker, packet>>
outcome == <<exit_status, exc, wait_result, interrupted, summary_packets>>
codec == <<header_in, header_out>>
history ==
    <<sent_count, last_datagram, dests, sent_payload, marked_count,
      headers_built, seq_advances, iterations, sleeps, sleep_micros>>
vars == <<pc, inputs, server, locals, outcome, codec, history>>

\* pcs inside the try block of stream_audio (lines 200-225)
TryPcs == {"for", "header", "sendto", "seq", "count", "ts", "sleep"}
\* pcs outside it
OpenPcs == {"main", "check_file", "construct", "load", "wait", "no_client",
            "calc", "summary"}

\* nothing streamed yet
NothingDone ==
    /\ raw_data = <<>>
    /\ samples_per_chunk = 0
    /\ chunk_size = 0
    /\ timestamp_increment = 0
    /\ packet_count = 0
    /\ range_next = W(0)
    /\ i = W(0)
    /\ chunk = <<>>
    /\ marker = FALSE
    /\ packet = <<>>
    /\ exit_status = None
    /\ exc = None
    /\ wait_result = None
    /\ interrupted = FALSE
    /\ summary_packets = None
    /\ header_out = None
    /\ sent_count = 0
    /\ last_datagram = <<>>
    /\ dests = {}
    /\ sent_payload = <<>>
    /\ marked_count = 0
    /\ headers_built = 0
    /\ seq_advances = 0
    /\ iterations = 0
    /\ sleeps = 0
    /\ sleep_micros = 0

InitWith(scenarios) ==
    /\ pc = "main"
    /\ has_arg \in BOOLEAN
    /\ file_state \in {"missing", "undecodable", "ok"}
    /\ \E sc \in scenarios :
          /\ sample_rate = sc[1]
          /\ chunk_duration_ms = sc[2]
          /\ file_pcm = sc[3]
    /\ arrivals \in Arrivals
    /\ socket = "none"
    /\ socket_timeout = None
    /\ client_addr = None
    /\ sequence_number = 0
    /\ timestamp = W(0)
    /\ ssrc = W(0)
    /\ header_in = None
    /\ NothingDone

Init == InitWith(Scenarios)

(***************************************************************************)
(* RtpServer.create_rtp_header                                             *)
(***************************************************************************)
\* create_rtp_header raises struct.error
HeaderError(m) ==
    StructError(W(VPXCC), W(Mpt(m)), W(sequence_number), timestamp, ssrc)

\* the 12 bytes create_rtp_header returns, as a sequence of integers
create_rtp_header(m) ==
    StructPack(W(VPXCC), W(Mpt(m)), W(sequence_number), timestamp, ssrc)

\* an exception nobody catches ends the program with a traceback
Raise(e) ==
    /\ pc' = "exited"
    /\ exc' = e
    /\ exit_status' = 1

(***************************************************************************)
(* main                                                                    *)
(***************************************************************************)
\* lines 238-245: no audio file on the command line
MainUsage ==
    /\ pc = "main"
    /\ ~ has_arg
    /\ pc' = "exited"
    /\ exit_status' = 1
    /\ UNCHANGED <<inputs, server, locals, exc, wait_result, interrupted,
                   summary_packets, codec, history>>

\* lines 247-248
MainArgs ==
    /\ pc = "main"
    /\ has_arg
    /\ pc' = "check_file"
    /\ UNCHANGED <<inputs, server, locals, outcome, codec, history>>

\* lines 250-252: the audio file does not exist
MainFileMissing ==
    /\ pc = "check_file"
    /\ file_state = "missing"
    /\ pc' = "exited"
    /\ exit_status' = 1
    /\ UNCHANGED <<inputs, server, locals, exc, wait_result, interrupted,
                   summary_packets, codec, history>>

\* line 250, file present
MainFileFound ==
    /\ pc = "check_file"
    /\ file_state # "missing"
    /\ pc' = "construct"
    /\ UNCHANGED <<inputs, server, locals, outcome, codec, history>>

\* line 254, RtpServer.__init__ (lines 41-61)
ServerInit ==
    /\ pc = "construct"
    /\ sequence_number' = 0
    /\ timestamp' = W(0)
    /\ ssrc' = W(SSRC)
    /\ socket' = "open"
    /\ client_addr' = None
    /\ pc' = "load"
    /\ UNCHANGED <<inputs, socket_timeout, locals, outcome, codec, history>>

(***************************************************************************)
(* RtpServer.stream_audio, before the loop                                 *)
(***************************************************************************)
\* lines 158-172: AudioSegment.from_file and the three conversions
LoadAudio ==
    /\ pc = "load"
    /\ file_state = "ok"
    /\ pc' = "wait"
    /\ UNCHANGED <<inputs, server, locals, outcome, codec, history>>

\* a bug: the decoder's exception caught and logged, the session carries on
LoadAudioFailsSwallowed ==
    /\ pc = "load"
    /\ file_state = "undecodable"
    /\ pc' = "wait"
    /\ UNCHANGED <<inputs, server, locals, outcome, codec, history>>

\* line 161: the decoder raises
LoadAudioFails ==
    /\ pc = "load"
    /\ file_state = "undecodable"
    /\ Raise("CouldntDecodeError")
    /\ UNCHANGED <<inputs, server, locals, wait_result, interrupted,
                   summary_packets, codec, history>>

\* a bug: the timeout reported as a connection
TimeoutResultTrue == "True"

\* what wait_for_client returns when recvfrom times out (line 100)
TimeoutResult == "False"

\* a bug: the datagram received last taken for the client
RecvFromLast(arr) == arr[Len(arr)]

\* data, addr = self.socket.recvfrom(1024): the datagram that arrived first
RecvFrom(arr) == Head(arr)

\* line 174, wait_for_client lines 87-97: a datagram arrives, whatever it holds
WaitForClientConnected ==
    /\ pc = "wait"
    /\ arrivals # <<>>
    /\ client_addr' = RecvFrom(arrivals).addr
    /\ socket_timeout' = "0.1"
    /\ wait_result' = "True"
    /\ pc' = "calc"
    /\ UNCHANGED <<inputs, socket, sequence_number, timestamp, ssrc, locals,
                   exit_status, exc, interrupted, summary_packets, codec,
                   history>>

\* line 174, wait_for_client lines 87-91 and 98-100: socket.timeout after 60 s
WaitForClientTimeout ==
    /\ pc = "wait"
    /\ arrivals = <<>>
    /\ socket_timeout' = "60"
    /\ wait_result' = TimeoutResult
    /\ pc' = IF TimeoutResult = "False" THEN "no_client" ELSE "calc"
    /\ UNCHANGED <<inputs, socket, client_addr, sequence_number, timestamp,
                   ssrc, locals, exit_status, exc, interrupted, summary_packets,
                   codec, history>>

\* lines 175-176, then main returns: the interpreter exits with status 0
NoClientReturn ==
    /\ pc = "no_client"
    /\ pc' = "exited"
    /\ exit_status' = 0
    /\ UNCHANGED <<inputs, server, locals, exc, wait_result, interrupted,
                   summary_packets, codec, history>>

\* lines 178-198; line 178 subscripts client_addr
CalcChunk ==
    /\ pc = "calc"
    /\ IF client_addr = None
       THEN /\ Raise("TypeError")
            /\ UNCHANGED locals
       ELSE /\ raw_data' = file_pcm
            /\ samples_per_chunk' = SamplesPerChunk(sample_rate, chunk_duration_ms)
            /\ chunk_size' = samples_per_chunk' * BytesPerSample
            /\ timestamp_increment' = samples_per_chunk'
            /\ packet_count' = 0
            /\ range_next' = W(0)
            /\ pc' = "for"
            /\ UNCHANGED <<i, chunk, marker, packet, exit_status, exc>>
    /\ UNCHANGED <<inputs, server, wait_result, interrupted, summary_packets,
                   codec, history>>

(***************************************************************************)
(* The streaming loop, lines 200-225                                       *)
(***************************************************************************)
\* line 201 with a zero step: range() raises ValueError
ForZeroStep ==
    /\ pc = "for"
    /\ chunk_size = 0
    /\ Raise("ValueError")
    /\ UNCHANGED <<inputs, server, locals, wait_result, interrupted,
                   summary_packets, codec, history>>

\* lines 201-209: next i, its chunk, padded, and the marker
ForNext ==
    /\ pc = "for"
    /\ chunk_size > 0
    /\ WLess(range_next, BytesLen(raw_data))
    /\ i' = range_next
    /\ range_next' = WAdd(range_next, W(chunk_size))
    /\ chunk' = PadChunk(SliceChunk(raw_data, i', chunk_size), chunk_size)
    /\ marker' = MarkerFor(i')
    /\ iterations' = iterations + 1
    /\ pc' = "header"
    /\ UNCHANGED <<inputs, server, raw_data, samples_per_chunk, chunk_size,
                   timestamp_increment, packet_count, packet, outcome, codec,
                   sent_count, last_datagram, dests, sent_payload,
                   marked_count, headers_built, seq_advances, sleeps,
                   sleep_micros>>

\* line 201: the range is exhausted
ForExhausted ==
    /\ pc = "for"
    /\ chunk_size > 0
    /\ ~ WLess(range_next, BytesLen(raw_data))
    /\ pc' = "summary"
    /\ UNCHANGED <<inputs, server, locals, outcome, codec, history>>

\* a bug: the guard of send_rtp_packet never taken
NoPeerIgnored(addr) == FALSE

\* not self.client_addr
NoPeer(addr) == addr = None

\* line 210, send_rtp_packet lines 139-143
SendBuildPacket ==
    /\ pc = "header"
    /\ IF NoPeer(client_addr)
       THEN /\ pc' = "count"
            /\ UNCHANGED <<packet, headers_built, exit_status, exc>>
       ELSE IF HeaderError(marker)
       THEN /\ Raise("struct.error")
            /\ UNCHANGED <<packet, headers_built>>
       ELSE /\ packet' = Concat(FromList(create_rtp_header(marker)), chunk)
            /\ headers_built' = headers_built + 1
            /\ pc' = "sendto"
            /\ UNCHANGED <<exit_status, exc>>
    /\ UNCHANGED <<inputs, server, raw_data, samples_per_chunk, chunk_size,
                   timestamp_increment, packet_count, range_next, i, chunk,
                   marker, wait_result, interrupted, summary_packets, codec,
                   sent_count, last_datagram, dests, sent_payload,
                   marked_count, seq_advances, iterations, sleeps,
                   sleep_micros>>

\* send_rtp_packet line 145: the datagram is handed to the socket
SendTo ==
    /\ pc = "sendto"
    /\ sent_count' = sent_count + 1
    /\ last_datagram' = packet
    /\ dests' = dests \cup {client_addr}
    /\ sent_payload' = Concat(sent_payload, Drop(packet, W(12)))
    /\ marked_count' =
          marked_count + (IF ByteAt(packet, W(1)) >= MARKER_BIT THEN 1 ELSE 0)
    /\ pc' = "seq"
    /\ UNCHANGED <<inputs, server, locals, outcome, codec, headers_built,
                   seq_advances, iterations, sleeps, sleep_micros>>

\* a bug: line 148 in a finally clause, run although sendto raised
SendToFailsAdvances ==
    /\ pc = "sendto"
    /\ Raise("OSError")
    /\ sequence_number' = AdvanceSeq(sequence_number)
    /\ seq_advances' = seq_advances + 1
    /\ UNCHANGED <<inputs, socket, socket_timeout, client_addr, timestamp,
                   ssrc, locals, wait_result, interrupted, summary_packets,
                   codec, sent_count, last_datagram, dests, sent_payload,
                   marked_count, headers_built, iterations, sleeps,
                   sleep_micros>>

\* a bug: the OSError caught and logged inside the loop, which carries on
SendToFailsSwallowed ==
    /\ pc = "sendto"
    /\ exc' = "OSError"
    /\ pc' = "count"
    /\ UNCHANGED <<inputs, server, locals, exit_status, wait_result,
                   interrupted, summary_packets, codec, history>>

\* send_rtp_packet line 145: sendto raises OSError
SendToFails ==
    /\ pc = "sendto"
    /\ Raise("OSError")
    /\ UNCHANGED <<inputs, server, locals, wait_result, interrupted,
                   summary_packets, codec, history>>

\* send_rtp_packet line 148
SeqUpdate ==
    /\ pc = "seq"
    /\ sequence_number' = AdvanceSeq(sequence_number)
    /\ seq_advances' = seq_advances + 1
    /\ pc' = "count"
    /\ UNCHANGED <<inputs, socket, socket_timeout, client_addr, timestamp,
                   ssrc, locals, outcome, codec, sent_count, last_datagram,
                   dests, sent_payload, marked_count, headers_built,
                   iterations, sleeps, sleep_micros>>

\* line 212
CountPacket ==
    /\ pc = "count"
    /\ packet_count' = packet_count + 1
    /\ pc' = "ts"
    /\ UNCHANGED <<inputs, server, raw_data, samples_per_chunk, chunk_size,
                   timestamp_increment, range_next, i, chunk, marker, packet,
                   outcome, codec, history>>

\* line 213
TimestampUpdate ==
    /\ pc = "ts"
    /\ timestamp' = AdvanceTimestamp(timestamp, timestamp_increment)
    /\ pc' = "sleep"
    /\ UNCHANGED <<inputs, socket, socket_timeout, client_addr,
                   sequence_number, ssrc, locals, outcome, codec, history>>

\* a bug: the sleep lasts the whole chunk duration
PacingSleepMicrosFull(ms) == ms * 1000

\* time.sleep(chunk_duration_ms / 1000 * 0.95), in microseconds
PacingSleepMicros(ms) == ms * 950

\* lines 216-225: progress line and the pacing sleep
PacingSleep ==
    /\ pc = "sleep"
    /\ sleeps' = sleeps + 1
    /\ sleep_micros' = PacingSleepMicros(chunk_duration_ms)
    /\ pc' = "for"
    /\ UNCHANGED <<inputs, server, locals, outcome, codec, sent_count,
                   last_datagram, dests, sent_payload, marked_count,
                   headers_built, seq_advances, iterations>>

\* a bug: the handler inside the loop body, so that the loop carries on
InterruptCaughtInLoop ==
    /\ pc \in TryPcs
    /\ ~ interrupted
    /\ interrupted' = TRUE
    /\ pc' = "for"
    /\ UNCHANGED <<inputs, server, locals, exit_status, exc, wait_result,
                   summary_packets, codec, history>>

\* lines 227-228: KeyboardInterrupt anywhere in the try block
InterruptCaught ==
    /\ pc \in TryPcs
    /\ interrupted' = TRUE
    /\ pc' = "summary"
    /\ UNCHANGED <<inputs, server, locals, exit_status, exc, wait_result,
                   summary_packets, codec, history>>

\* KeyboardInterrupt anywhere else: nobody catches it; the interpreter ends
\* with status 1 or, re-raising SIGINT, 130
InterruptUncaught ==
    /\ pc \in OpenPcs
    /\ pc' = "exited"
    /\ exc' = "KeyboardInterrupt"
    /\ exit_status' \in {1, 130}
    /\ UNCHANGED <<inputs, server, locals, wait_result, interrupted,
                   summary_packets, codec, history>>

\* lines 230-234, then main returns: the interpreter exits with status 0
Summary ==
    /\ pc = "summary"
    /\ summary_packets' = packet_count
    /\ pc' = "exited"
    /\ exit_status' = 0
    /\ UNCHANGED <<inputs, server, locals, exc, wait_result, interrupted,
                   codec, history>>

Next ==
    \/ MainUsage
    \/ MainArgs
    \/ MainFileMissing
    \/ MainFileFound
    \/ ServerInit
    \/ LoadAudio
    \/ LoadAudioFails
    \/ WaitForClientConnected
    \/ WaitForClientTimeout
    \/ NoClientReturn
    \/ CalcChunk
    \/ ForZeroStep
    \/ ForNext
    \/ ForExhausted
    \/ SendBuildPacket
    \/ SendTo
    \/ SendToFails
    \/ SeqUpdate
    \/ CountPacket
    \/ TimestampUpdate
    \/ PacingSleep
    \/ InterruptCaught
    \/ InterruptUncaught
    \/ Summary

Spec == Init /\ [][Next]_vars

(***************************************************************************)
(* Long clips.  A run of main() on a clip of tens of thousands of default  *)
(* frames is picked up at the top of the loop after k complete iterations, *)
(* none of them interrupted or failed: AtLoopTop is the state the program  *)
(* is in there, and ResumeIsReached checks it against the run from main.   *)
(***************************************************************************)
DefaultSamples == SamplesPerChunk(DEFAULT_SAMPLE_RATE, DEFAULT_CHUNK_MS)
DefaultChunk == DefaultSamples * BytesPerSample

\* the header of packet number j (from 0) of a default run
HeaderOfPacket(j) ==
    StructPack(W(VPXCC), W(Mpt(j = 0)), W(j % (SEQ_MASK + 1)),
               WMul(W(DefaultSamples), j), W(SSRC))

AtLoopTop(k, clip, addr) ==
    /\ pc = "for"
    /\ has_arg = TRUE
    /\ file_state = "ok"
    /\ sample_rate = DEFAULT_SAMPLE_RATE
    /\ chunk_duration_ms = DEFAULT_CHUNK_MS
    /\ file_pcm = clip
    /\ arrivals \in {a \in Arrivals : a # <<>> /\ RecvFrom(a).addr = addr}
    /\ socket = "open"
    /\ socket_timeout = "0.1"
    /\ client_addr = addr
    /\ sequence_number = k % (SEQ_MASK + 1)
    /\ timestamp = WMul(W(DefaultSamples), k)
    /\ ssrc = W(SSRC)
    /\ raw_data = clip
    /\ samples_per_chunk = DefaultSamples
    /\ chunk_size = DefaultChunk
    /\ timestamp_increment = DefaultSamples
    /\ packet_count = k
    /\ range_next = WMul(W(DefaultChunk), k)
    /\ i = WMul(W(DefaultChunk), k - 1)
    /\ chunk = Take(Drop(clip, WMul(W(DefaultChunk), k - 1)), W(DefaultChunk))
    /\ marker = FALSE
    /\ packet = Concat(FromList(HeaderOfPacket(k - 1)),
                       Take(Drop(clip, WMul(W(DefaultChunk), k - 1)),
                            W(DefaultChunk)))
    /\ exit_status = None
    /\ exc = None
    /\ wait_result = "True"
    /\ interrupted = FALSE
    /\ summary_packets = None
    /\ header_in = None
    /\ header_out = None
    /\ sent_count = k
    /\ last_datagram = Concat(FromList(HeaderOfPacket(k - 1)),
                              Take(Drop(clip, WMul(W(DefaultChunk), k - 1)),
                                   W(DefaultChunk)))
    /\ dests = {addr}
    /\ sent_payload = Take(clip, WMul(W(DefaultChunk), k))
    /\ marked_count = 1
    /\ headers_built = k
    /\ seq_advances = k
    /\ iterations = k
    /\ sleeps = k
    /\ sleep_micros = PacingSleepMicros(DEFAULT_CHUNK_MS)

\* the long clips and where their runs are picked up
Resumes == {<<SeqResume, SeqClip>>, <<TsResume, TsClip>>}

InitLong ==
    \/ InitWith(LongScenarios)
    \/ \E r \in Resumes, addr \in Peers : AtLoopTop(r[1], r[2], addr)

SpecLong == InitLong /\ [][Next]_vars

\* the run from main() on the first long clip, and what it is at the top of
\* the loop after SeqResume iterations
InitFull == InitWith({<<DEFAULT_SAMPLE_RATE, DEFAULT_CHUNK_MS, SeqClip>>})
SpecFull == InitFull /\ [][Next]_vars
ResumeIsReached ==
    (pc = "for" /\ iterations = SeqResume /\ ~ interrupted /\ exc = None)
        => AtLoopTop(SeqResume, SeqClip, client_addr)

(***************************************************************************)
(* create_rtp_header on its own: the fields are drawn from sample values,  *)
(* one call is made.                                                       *)
(***************************************************************************)
SeqSamples == {0, 1, 255, 256, 257, 4660, 32768, 65534, 65535}
TsSamples ==
    {W(0), W(1), W(255), W(256), W(65535), W(65536), W(16777216),
     W(305419896), WMul(W(65536), 32768), WSub(Pow256(4), W(1)), Pow256(4),
     WAdd(Pow256(4), W(960))}

\* values of self.ssrc: the one __init__ sets, and others of the field's range
SsrcSamples ==
    {W(SSRC), W(0), W(1), W(65536), WSub(Pow256(4), W(1)), Pow256(4)}

InitCodecWith(ssrcs) ==
    /\ pc = "codec"
    /\ has_arg = TRUE
    /\ file_state = "ok"
    /\ sample_rate = DEFAULT_SAMPLE_RATE
    /\ chunk_duration_ms = DEFAULT_CHUNK_MS
    /\ file_pcm = <<>>
    /\ arrivals = <<>>
    /\ socket = "open"
    /\ socket_timeout = None
    /\ client_addr = None
    /\ sequence_number \in SeqSamples
    /\ timestamp \in TsSamples
    /\ ssrc \in ssrcs
    /\ header_in \in BOOLEAN
    /\ NothingDone

\* the server as __init__ leaves its ssrc
InitCodec == InitCodecWith({W(SSRC)})

\* one call create_rtp_header(header_in)
CodecEncode ==
    /\ pc = "codec"
    /\ pc' = "codec_done"
    /\ IF HeaderError(header_in)
       THEN /\ exc' = "struct.error"
            /\ UNCHANGED <<header_out, headers_built>>
       ELSE /\ header_out' = create_rtp_header(header_in)
            /\ headers_built' = headers_built + 1
            /\ UNCHANGED exc
    /\ UNCHANGED <<inputs, server, locals, exit_status, wait_result,
                   interrupted, summary_packets, header_in, sent_count,
                   last_datagram, dests, sent_payload, marked_count,
                   seq_advances, iterations, sleeps, sleep_micros>>

SpecCodec == InitCodec /\ [][CodecEncode]_vars

\* the same call with self.ssrc drawn from its field's range
InitLossless == InitCodecWith(SsrcSamples)
SpecLossless == InitLossless /\ [][CodecEncode]_vars

(***************************************************************************)
(* send_rtp_packet on its own: one call send_rtp_packet(chunk, marker) on  *)
(* a constructed server, with or without a client, from the call to the    *)
(* return (pc = "count") or the exception.                                 *)
(***************************************************************************)
DirectPayloads == {<<>>, PcmOf(<<<<1, 0>>>>), PcmOf(<<<<255, 127>>, <<0, 0>>>>)}

InitDirect ==
    /\ pc = "header"
    /\ has_arg = TRUE
    /\ file_state = "ok"
    /\ sample_rate = DEFAULT_SAMPLE_RATE
    /\ chunk_duration_ms = DEFAULT_CHUNK_MS
    /\ file_pcm = <<>>
    /\ arrivals \in {a \in Arrivals : Len(a) <= 1}
    /\ socket = "open"
    /\ socket_timeout = IF arrivals = <<>> THEN None ELSE "0.1"
    /\ client_addr = IF arrivals = <<>> THEN None ELSE RecvFrom(arrivals).addr
    /\ sequence_number \in SeqSamples
    /\ timestamp \in TsSamples
    /\ ssrc = W(SSRC)
    /\ raw_data = <<>>
    /\ samples_per_chunk = 0
    /\ chunk_size = 0
    /\ timestamp_increment = 0
    /\ packet_count = 0
    /\ range_next = W(0)
    /\ i = W(0)
    /\ chunk \in DirectPayloads
    /\ marker \in BOOLEAN
    /\ packet = <<>>
    /\ exit_status = None
    /\ exc = None
    /\ wait_result = IF arrivals = <<>> THEN None ELSE "True"
    /\ interrupted = FALSE
    /\ summary_packets = None
    /\ header_in = None
    /\ header_out = None
    /\ sent_count = 0
    /\ last_datagram = <<>>
    /\ dests = {}
    /\ sent_payload = <<>>
    /\ marked_count = 0
    /\ headers_built = 0
    /\ seq_advances = 0
    /\ iterations = 0
    /\ sleeps = 0
    /\ sleep_micros = 0

\* lines 139-148
NextDirect ==
    \/ SendBuildPacket
    \/ SendTo
    \/ SendToFails
    \/ SeqUpdate

SpecDirect == InitDirect /\ [][NextDirect]_vars

(***************************************************************************)
(* Reading a datagram back, by the RTP layout.                             *)
(***************************************************************************)
DatagramMarked(d) == ByteAt(d, W(1)) >= 128
DatagramSeq(d) == ByteAt(d, W(2)) * 256 + ByteAt(d, W(3))
DatagramTimestamp(d) ==
    WAdd(WMul(W(ByteAt(d, W(4)) * 256 + ByteAt(d, W(5))), 65536),
         W(ByteAt(d, W(6)) * 256 + ByteAt(d, W(7))))
DatagramPayload(d) == Drop(d, W(12))

\* the loop ran until range() was exhausted: no interrupt, no exception
Exhausted ==
    /\ pc \in {"summary", "exited"}
    /\ wait_result = "True"
    /\ ~ interrupted
    /\ exc = None

(***************************************************************************)
(* C1.  Sequence numbers track the packets handed to the socket one to one *)
(* modulo 65536: packet number k (from 0) carries k mod 65536, the state   *)
(* is sent packets mod 65536 once line 148 has run, 65536 advances from 0  *)
(* give 0 again, and the value never leaves 0..65535.                      *)
(***************************************************************************)
C1_SeqTracksPackets ==
    /\ sequence_number \in 0..65535
    /\ sequence_number = seq_advances % 65536
    /\ sent_count - seq_advances \in {0, 1}
    /\ pc \in TryPcs \ {"seq"} => seq_advances = sent_count
    /\ sent_count > 0 => DatagramSeq(last_datagram) = (sent_count - 1) % 65536

\* packet number 65536 has just been handed over, carrying 0
C1_Wrapped ==
    /\ sent_count = 65537
    /\ seq_advances = 65536
    /\ sequence_number = 0
    /\ DatagramSeq(last_datagram) = 0

(***************************************************************************)
(* C2.  As claimed: the timestamp wraps at 2^32, packet number k carries   *)
(* (k * samplesPerFrame) mod 2^32, and no header fails to encode.          *)
(***************************************************************************)
C2_TimestampWraps ==
    /\ exc # "struct.error"
    /\ sent_count > 0 =>
          DatagramTimestamp(last_datagram)
              = WMod32(WMul(W(samples_per_chunk), sent_count - 1))

(***************************************************************************)
(* C3.  A header that create_rtp_header returns is 12 bytes: 0x80, then    *)
(* marker bit | 11, the sequence number in bytes 2-3, the timestamp in     *)
(* bytes 4-7 and 0x12345678 in bytes 8-11, all big-endian; marker set,     *)
(* sequence number 0xFFFF, timestamp 0 give 80 8B FF FF 00 00 00 00 12 34  *)
(* 56 78.                                                                  *)
(***************************************************************************)
C3_HeaderLayout ==
    /\ header_out # None =>
          /\ Len(header_out) = 12
          /\ header_out[1] = 128
          /\ header_out[2] = (IF header_in THEN 128 ELSE 0) + 11
          /\ header_out[3] * 256 + header_out[4] = sequence_number
          /\ WAdd(WMul(W(header_out[5] * 256 + header_out[6]), 65536),
                  W(header_out[7] * 256 + header_out[8])) = timestamp
          /\ SubSeq(header_out, 9, 12) = <<18, 52, 86, 120>>
    /\ (pc = "codec_done" /\ header_in = TRUE /\ sequence_number = 65535
        /\ timestamp = W(0)) =>
          header_out = <<128, 139, 255, 255, 0, 0, 0, 0, 18, 52, 86, 120>>

\* the scenario of the claim has been encoded
C3_Scenario ==
    /\ pc = "codec_done"
    /\ header_in = TRUE
    /\ sequence_number = 65535
    /\ timestamp = W(0)
    /\ header_out = <<128, 139, 255, 255, 0, 0, 0, 0, 18, 52, 86, 120>>

(***************************************************************************)
(* C4.  With frame size F > 0 every datagram carries a payload of exactly  *)
(* F bytes, and a loop that ran to exhaustion on L source bytes sent       *)
(* ceil(L/F) of them, the last one holding the rest of the source followed *)
(* by zero bytes only (none when F divides L): 2500 bytes at F = 1920 give *)
(* 2 frames, the second ending in 1340 zero bytes; 1920 bytes give 1 frame *)
(* that is the source.                                                     *)
(***************************************************************************)
C4_FrameCountAndPadding ==
    /\ sent_count > 0 =>
          /\ chunk_size > 0
          /\ BytesLen(last_datagram) = W(12 + chunk_size)
          /\ BytesLen(sent_payload) = WMul(W(chunk_size), sent_count)
    /\ Exhausted =>
          /\ WLeq(BytesLen(raw_data), WMul(W(chunk_size), sent_count))
          /\ sent_count > 0 =>
                /\ WLess(WMul(W(chunk_size), sent_count - 1), BytesLen(raw_data))
                /\ DatagramPayload(last_datagram) =
                      Concat(Drop(raw_data, WMul(W(chunk_size), sent_count - 1)),
                             Repeat(0, WSub(WMul(W(chunk_size), sent_count),
                                            BytesLen(raw_data))))
    /\ (Exhausted /\ raw_data = Clip2500) =>
          /\ chunk_size = 1920
          /\ sent_count = 2
          /\ Drop(DatagramPayload(last_datagram), W(580)) = Repeat(0, W(1340))
          /\ Take(DatagramPayload(last_datagram), W(580)) = Repeat(2, W(580))
    /\ (Exhausted /\ raw_data = Clip1920) =>
          /\ sent_count = 1
          /\ DatagramPayload(last_datagram) = Clip1920

\* the 2500-byte clip has been streamed to the end
C4_Clip2500Done ==
    /\ Exhausted
    /\ pc = "exited"
    /\ raw_data = Clip2500
    /\ sent_count = 2

(***************************************************************************)
(* C5.  At every point the payloads sent so far, concatenated and cut to   *)
(* the source length, are the prefix of the source of that length, and the *)
(* last packet sent, number k, carries source bytes k*F .. (k+1)*F - 1.    *)
(***************************************************************************)
C5_SourceOrder ==
    LET sentLen == BytesLen(sent_payload)
        cut == IF WLess(BytesLen(raw_data), sentLen)
               THEN BytesLen(raw_data) ELSE sentLen
        start == WMul(W(chunk_size), sent_count - 1)
        rest == WSub(BytesLen(raw_data), start)
        n == IF WLess(rest, W(chunk_size)) THEN rest ELSE W(chunk_size)
    IN  /\ Take(sent_payload, cut) = Take(raw_data, cut)
        /\ sent_count > 0 =>
              /\ WLess(start, BytesLen(raw_data))
              /\ Take(DatagramPayload(last_datagram), n)
                    = Take(Drop(raw_data, start), n)

\* three frames of three different samples are out
C5_ThreeFramesSent ==
    /\ sent_count = 3
    /\ chunk_size = 2
    /\ raw_data = PcmOf(<<<<1, 0>>, <<255, 127>>, <<0, 0>>>>)
    /\ sent_payload = raw_data

(***************************************************************************)
(* C6.  Of the datagrams sent, exactly the first has the marker bit, and   *)
(* it is the frame at source offset 0; an empty PCM buffer gives no loop   *)
(* iteration, no header and no datagram.                                   *)
(***************************************************************************)
C6_MarkerOnFirstOnly ==
    /\ sent_count = 0 => marked_count = 0
    /\ sent_count > 0 =>
          /\ marked_count = 1
          /\ DatagramMarked(last_datagram) <=> sent_count = 1
    /\ pc = "sendto" => (DatagramMarked(packet) <=> i = W(0))
    /\ file_pcm = <<>> =>
          (iterations = 0 /\ headers_built = 0 /\ sent_count = 0)

\* the third datagram is out, unmarked, after a marked first one
C6_ThirdUnmarked ==
    /\ sent_count = 3
    /\ marked_count = 1
    /\ ~ DatagramMarked(last_datagram)

(***************************************************************************)
(* C7.  As claimed: samplesPerFrame is sampleRate * frameDurationMs / 1000 *)
(* rounded to a nearest integer.                                           *)
(***************************************************************************)
Calculated == pc \in TryPcs \cup {"summary"}

C7_RoundedSamples ==
    Calculated =>
        LET num == sample_rate * chunk_duration_ms
            d == samples_per_chunk * 1000 - num
        IN  2 * (IF d < 0 THEN 0 - d ELSE d) <= 1000

(***************************************************************************)
(* C7, amended.  samplesPerFrame is sampleRate * frameDurationMs / 1000    *)
(* truncated to an integer, frameSizeBytes is samplesPerFrame * 2 * 1, and *)
(* the timestamp moves by samplesPerFrame per counted packet; 48000 Hz and *)
(* 20 ms give 960 and 1920.                                                *)
(***************************************************************************)
C7_TruncatedSamples ==
    /\ Calculated =>
          /\ samples_per_chunk * 1000 <= sample_rate * chunk_duration_ms
          /\ sample_rate * chunk_duration_ms < (samples_per_chunk + 1) * 1000
          /\ chunk_size = samples_per_chunk * 2 * 1
          /\ timestamp_increment = samples_per_chunk
          /\ (sample_rate = 48000 /\ chunk_duration_ms = 20) =>
                (samples_per_chunk = 960 /\ chunk_size = 1920)
    /\ pc \in TryPcs =>
          timestamp = WMul(W(samples_per_chunk),
                           IF pc = "ts" THEN packet_count - 1 ELSE packet_count)

\* 1999 Hz at 1 ms: 1.999 samples, truncated to 1, and one packet counted
C7_TruncationSeen ==
    /\ pc = "sleep"
    /\ sample_rate = 1999
    /\ chunk_duration_ms = 1
    /\ samples_per_chunk = 1
    /\ timestamp = W(1)

(***************************************************************************)
(* C8.  When recvfrom times out after the 60-second wait, wait_for_client  *)
(* returns False, the peer address stays unset and streaming never starts: *)
(* no loop iteration, no header, no datagram, sequence number and          *)
(* timestamp still 0.                                                      *)
(***************************************************************************)
C8_TimeoutNeverStreams ==
    socket_timeout = "60" =>
        /\ wait_result = "False"
        /\ client_addr = None
        /\ pc \in {"no_client", "exited"}
        /\ iterations = 0
        /\ headers_built = 0
        /\ sent_count = 0
        /\ sequence_number = 0
        /\ timestamp = W(0)

\* the program has ended after a timeout
C8_TimedOut ==
    /\ pc = "exited"
    /\ socket_timeout = "60"
    /\ wait_result = "False"
    /\ exc = None

(***************************************************************************)
(* C9.  As claimed: the exit status is non-zero when the audio file does   *)
(* not exist and when the rendezvous wait times out, and zero only when    *)
(* streaming was started.                                                  *)
(***************************************************************************)
C9_NonZeroExit ==
    pc = "exited" =>
        /\ (has_arg /\ file_state = "missing") => exit_status # 0
        /\ wait_result = "False" => exit_status # 0
        /\ exit_status = 0 => wait_result = "True"

(***************************************************************************)
(* C10.  As claimed: whenever the program has ended after the socket was   *)
(* opened, the socket is closed.                                           *)
(***************************************************************************)
C10_SocketClosed ==
    (pc = "exited" /\ socket # "none") => socket = "closed"

(***************************************************************************)
(* C11.  As claimed: when sendto raises, the sequence number and the       *)
(* timestamp have still advanced for that attempt, so that after a failed  *)
(* send they stand at the number of packets attempted (headers built), as  *)
(* after a send that succeeded.                                            *)
(***************************************************************************)
C11_AdvancePerAttempt ==
    exc = "OSError" =>
        /\ sequence_number = headers_built % 65536
        /\ timestamp = WMul(W(samples_per_chunk), headers_built)

(***************************************************************************)
(* C11, amended.  The sequence number and the timestamp advance only after *)
(* a send that returned: line 148 runs at most once per datagram handed to *)
(* the socket and line 213 at most once per execution of line 148, and     *)
(* when sendto raises, neither runs for that attempt: both still stand at  *)
(* the number of packets sent, one less than the packets attempted.        *)
(***************************************************************************)
C11_AdvanceOnlyAfterSend ==
    /\ seq_advances <= sent_count
    /\ packet_count <= seq_advances
    /\ exc = "OSError" =>
          /\ headers_built = sent_count + 1
          /\ seq_advances = sent_count
          /\ packet_count = sent_count
          /\ sequence_number = sent_count % 65536
          /\ timestamp = WMul(W(samples_per_chunk), sent_count)

\* the second send of a session failed after the first one succeeded
C11_SecondSendFailed ==
    /\ exc = "OSError"
    /\ headers_built = 2
    /\ sent_count = 1
    /\ sequence_number = 1
    /\ timestamp = W(samples_per_chunk)
    /\ samples_per_chunk > 0

(***************************************************************************)
(* C12.  When sendto raises in mid-stream the session is over: the program *)
(* has left the loop with the OSError uncaught (exit status 1, no summary  *)
(* printed, the KeyboardInterrupt handler not involved), the failed packet *)
(* was built once and never handed over again, no frame after it was       *)
(* started, and the packets sent before it are the frames before it.       *)
(***************************************************************************)
C12_SendFailureEndsSession ==
    exc = "OSError" =>
        /\ pc = "exited"
        /\ exit_status = 1
        /\ ~ interrupted
        /\ summary_packets = None
        /\ headers_built = iterations
        /\ sent_count = iterations - 1
        /\ range_next = WMul(W(chunk_size), iterations)
        /\ sent_payload = Take(raw_data, WMul(W(chunk_size), sent_count))

\* the second of three frames failed: one frame is out, the third never goes
C12_SecondOfThreeFailed ==
    /\ exc = "OSError"
    /\ pc = "exited"
    /\ iterations = 2
    /\ sent_count = 1
    /\ WLess(range_next, BytesLen(raw_data))

(***************************************************************************)
(* C13.  A KeyboardInterrupt taken anywhere in the loop (lines 200-225) is *)
(* caught: the step that takes it goes straight to the summary with no     *)
(* exception pending, from then on nothing more is handed to the socket,   *)
(* and a run that ends without any further interrupt has printed the       *)
(* summary and exits with status 0; every datagram ever handed to the      *)
(* socket is 12 + frameSizeBytes bytes long.                               *)
(***************************************************************************)
C13_InterruptEndsGracefully ==
    /\ [](sent_count > 0 => BytesLen(last_datagram) = W(12 + chunk_size))
    /\ [](interrupted =>
            /\ pc \in {"summary", "exited"}
            /\ exc \in {None, "KeyboardInterrupt"}
            /\ pc = "summary" => (exc = None /\ exit_status = None)
            /\ (pc = "exited" /\ exc = None) =>
                  (exit_status = 0 /\ summary_packets = packet_count))
    /\ [][(~ interrupted /\ interrupted') =>
            (pc \in TryPcs /\ pc' = "summary" /\ exc' = None
             /\ exit_status' = None)]_vars
    /\ [][interrupted =>
            (/\ sent_count' = sent_count
             /\ last_datagram' = last_datagram
             /\ sent_payload' = sent_payload
             /\ headers_built' = headers_built)]_vars

\* interrupted after the first of several frames; the summary was printed
C13_InterruptedAfterFirst ==
    /\ interrupted
    /\ pc = "exited"
    /\ exc = None
    /\ exit_status = 0
    /\ sent_count = 1
    /\ WLess(range_next, BytesLen(raw_data))

(***************************************************************************)
(* C14.  Once wait_for_client has returned, the peer address is set        *)
(* exactly when a datagram arrived, whatever its payload (an empty one     *)
(* included), and it is the sender of the first datagram that arrived;     *)
(* once set it never changes; nothing is handed to the socket while it is  *)
(* unset, and all datagrams of the session went to that one address.       *)
(***************************************************************************)
C14_PeerIsFirstSender ==
    /\ [](client_addr # None =>
            (arrivals # <<>> /\ client_addr = arrivals[1].addr))
    /\ [](wait_result # None => (client_addr # None <=> arrivals # <<>>))
    /\ [](dests = IF sent_count = 0 THEN {} ELSE {client_addr})
    /\ [](sent_count > 0 => client_addr # None)
    /\ [][client_addr # None => client_addr' = client_addr]_vars
    /\ [][sent_count' # sent_count => client_addr # None]_vars

\* two packets went to the sender of an empty first datagram, although a
\* second client had sent one too
C14_EmptyHelloBound ==
    /\ sent_count = 2
    /\ Len(arrivals) = 2
    /\ arrivals[1].data = <<>>
    /\ client_addr = arrivals[1].addr
    /\ dests = {arrivals[1].addr}

(***************************************************************************)
(* C15.  With a file the decoder cannot read, the session never gets past  *)
(* line 161: the decoder's exception ends the program with exit status 1   *)
(* and no summary, the rendezvous wait is never entered, no header is      *)
(* built, nothing is handed to the socket, and the sequence number and the *)
(* timestamp are still 0.                                                  *)
(***************************************************************************)
C15_DecodeFailureIsFatal ==
    /\ file_state = "undecodable" =>
          /\ wait_result = None
          /\ client_addr = None
          /\ iterations = 0
          /\ headers_built = 0
          /\ sent_count = 0
          /\ sequence_number = 0
          /\ timestamp = W(0)
    /\ exc = "CouldntDecodeError" =>
          /\ file_state = "undecodable"
          /\ pc = "exited"
          /\ exit_status = 1
          /\ summary_packets = None
    /\ (pc = "exited" /\ has_arg /\ file_state = "undecodable"
        /\ exc # "KeyboardInterrupt") => exc = "CouldntDecodeError"

\* the decoder failed although a client was about to connect
C15_DecodeFailed ==
    /\ pc = "exited"
    /\ exc = "CouldntDecodeError"
    /\ socket = "open"
    /\ arrivals # <<>>
    /\ file_pcm # <<>>

(***************************************************************************)
(* C16.  For marker in {true, false}, sequence number in 0..65535,         *)
(* timestamp and ssrc in 0..2^32 - 1, create_rtp_header returns 12 bytes   *)
(* starting with 0x80 from which the stated layout reads the four inputs   *)
(* back, and no other tuple of inputs gives the same 12 bytes.             *)
(***************************************************************************)
DecodeHeader(h) ==
    [marker |-> h[2] >= 128,
     sequenceNumber |-> h[3] * 256 + h[4],
     timestamp |-> WAdd(WMul(W(h[5] * 256 + h[6]), 65536),
                        W(h[7] * 256 + h[8])),
     ssrc |-> WAdd(WMul(W(h[9] * 256 + h[10]), 65536),
                   W(h[11] * 256 + h[12]))]

ValidFields(seq, ts, id) ==
    /\ seq \in 0..65535
    /\ WLess(ts, Pow256(4))
    /\ WLess(id, Pow256(4))

C16_HeaderLossless ==
    /\ (pc = "codec_done" /\ ValidFields(sequence_number, timestamp, ssrc)) =>
          header_out # None
    /\ (header_out # None /\ ValidFields(sequence_number, timestamp, ssrc)) =>
          /\ Len(header_out) = 12
          /\ header_out[1] = 128
          /\ DecodeHeader(header_out) =
                [marker |-> header_in, sequenceNumber |-> sequence_number,
                 timestamp |-> timestamp, ssrc |-> ssrc]
          /\ \A m \in BOOLEAN, seq \in SeqSamples, ts \in TsSamples,
                id \in SsrcSamples :
                (/\ ValidFields(seq, ts, id)
                 /\ StructPack(W(VPXCC), W(Mpt(m)), W(seq), ts, id) = header_out)
                    => (/\ m = header_in
                        /\ seq = sequence_number
                        /\ ts = timestamp
                        /\ id = ssrc)

\* the largest value of every field has been encoded
C16_AllOnes ==
    /\ pc = "codec_done"
    /\ header_in = TRUE
    /\ sequence_number = 65535
    /\ timestamp = WSub(Pow256(4), W(1))
    /\ ssrc = WSub(Pow256(4), W(1))
    /\ header_out = <<128, 139, 255, 255, 255, 255, 255, 255,
                      255, 255, 255, 255>>

(***************************************************************************)
(* C17.  Within loop iteration number n the steps come in the order build  *)
(* header, send, advance sequence number, count and advance timestamp,     *)
(* sleep: at each position exactly the steps before it have been done n    *)
(* times and the others n - 1 times.  The packet built carries the         *)
(* sequence number and timestamp the state holds before the advance of     *)
(* that packet, so between two sends there is one advance of each and one  *)
(* sleep, and every sleep lasts chunk_duration_ms * 0.95 milliseconds.     *)
(***************************************************************************)
C17_StepOrder ==
    LET n == iterations
        done(h, s, a, c, z) ==
            /\ headers_built = n - 1 + h
            /\ sent_count = n - 1 + s
            /\ seq_advances = n - 1 + a
            /\ packet_count = n - 1 + c
            /\ sleeps = n - 1 + z
    IN  /\ pc = "header" =>
              (done(0, 0, 0, 0, 0)
               /\ timestamp = WMul(W(timestamp_increment), n - 1))
        /\ pc = "sendto" =>
              /\ done(1, 0, 0, 0, 0)
              /\ DatagramSeq(packet) = sequence_number
              /\ DatagramTimestamp(packet) = timestamp
              /\ sequence_number = (n - 1) % 65536
              /\ timestamp = WMul(W(timestamp_increment), n - 1)
        /\ pc = "seq" =>
              /\ done(1, 1, 0, 0, 0)
              /\ last_datagram = packet
              /\ DatagramSeq(last_datagram) = sequence_number
              /\ DatagramTimestamp(last_datagram) = timestamp
        /\ pc = "count" =>
              (done(1, 1, 1, 0, 0) /\ sequence_number = n % 65536)
        /\ pc = "ts" =>
              (done(1, 1, 1, 1, 0)
               /\ timestamp = WMul(W(timestamp_increment), n - 1))
        /\ pc = "sleep" =>
              (done(1, 1, 1, 1, 0)
               /\ timestamp = WMul(W(timestamp_increment), n))
        /\ pc = "for" => done(1, 1, 1, 1, 1)
        /\ sleep_micros = IF sleeps = 0 THEN 0 ELSE chunk_duration_ms * 950

\* the third packet is built and about to be sent, after two sleeps
C17_ThirdAboutToGo ==
    /\ pc = "sendto"
    /\ sent_count = 2
    /\ headers_built = 3
    /\ seq_advances = 2
    /\ sleeps = 2
    /\ sleep_micros = 950
    /\ DatagramSeq(packet) = 2

(***************************************************************************)
(* C18.  As claimed: a session whose peer was bound and whose frame size   *)
(* is positive, with no interrupt and no failed send, ends normally: no    *)
(* exception, exit status 0, and exactly ceil(L/F) packets handed to the   *)
(* socket and reported in the summary.                                     *)
(***************************************************************************)
C18_EndsNormally ==
    (/\ pc = "exited"
     /\ client_addr # None
     /\ chunk_size > 0
     /\ ~ interrupted
     /\ exc \notin {"KeyboardInterrupt", "OSError"}) =>
        /\ exc = None
        /\ exit_status = 0
        /\ summary_packets = sent_count
        /\ WLeq(BytesLen(raw_data), WMul(W(chunk_size), sent_count))
        /\ sent_count > 0 =>
              WLess(WMul(W(chunk_size), sent_count - 1), BytesLen(raw_data))

(***************************************************************************)
(* C19.  A call of send_rtp_packet on a server whose client_addr is unset  *)
(* returns at once: its only step goes from the call to the return and     *)
(* changes neither the sequence number, the timestamp nor client_addr; no  *)
(* header is built (so no struct.error either, whatever the timestamp),    *)
(* nothing is handed to the socket and no exception is raised.             *)
(***************************************************************************)
C19_NoPeerNoOp ==
    /\ [](client_addr = None =>
            /\ pc \in {"header", "count"}
            /\ headers_built = 0
            /\ sent_count = 0
            /\ dests = {}
            /\ seq_advances = 0
            /\ packet = <<>>
            /\ exc = None
            /\ exit_status = None)
    /\ [][client_addr = None =>
            (/\ pc = "header"
             /\ pc' = "count"
             /\ sequence_number' = sequence_number
             /\ timestamp' = timestamp
             /\ client_addr' = None)]_vars

\* the call has returned on a server without a client, whose timestamp no
\* header could have held
C19_ReturnedSilently ==
    /\ pc = "count"
    /\ client_addr = None
    /\ chunk # <<>>
    /\ ~ WLess(timestamp, Pow256(4))
    /\ headers_built = 0
    /\ sent_count = 0

(***************************************************************************)
(* C20.  As claimed: whenever the summary has been printed, the "Total     *)
(* packets sent" it reports is the number of datagrams handed to the       *)
(* socket.                                                                 *)
(***************************************************************************)
C20_SummaryCountsSent ==
    (pc = "exited" /\ wait_result = "True" /\ exit_status = 0) =>
        summary_packets = sent_count

====
